---- MODULE Spec2Model ----
(***************************************************************************)
(* A model of pdf_merger.py: natural_sort_key and combine_pdfs.            *)
(*                                                                         *)
(* Strings are sequences of one-character strings, so that re.split,       *)
(* str.lower, str.isdigit, int() and str.endswith are computed character   *)
(* by character as Python computes them.  Names are written over ASCII     *)
(* letters, digits, ".", "_" and "/"; on these str.isdigit and the class   *)
(* \d of re agree, so that int() is applied to digit runs only.  The       *)
(* filesystem is a set of directories and a set of regular files, each a   *)
(* sequence of path components below the working directory.                *)
(***************************************************************************)
EXTENDS Integers, Sequences, FiniteSets, TLC

(***************************************************************************)
(* Characters.                                                             *)
(***************************************************************************)
LowerLetters == <<"a","b","c","d","e","f","g","h","i","j","k","l","m",
                  "n","o","p","q","r","s","t","u","v","w","x","y","z">>
UpperLetters == <<"A","B","C","D","E","F","G","H","I","J","K","L","M",
                  "N","O","P","Q","R","S","T","U","V","W","X","Y","Z">>
Digits == <<"0","1","2","3","4","5","6","7","8","9">>

IndexIn(seq, c) == CHOOSE i \in 1..Len(seq) : seq[i] = c
Others == << ".", "/", "_" >>
Alphabet ==
    { LowerLetters[i] : i \in 1..26 } \cup { UpperLetters[i] : i \in 1..26 }
    \cup { Digits[i] : i \in 1..10 } \cup { Others[i] : i \in 1..3 }

\* the character class \d of the regular expression, on ASCII
DigitChars == { Digits[i] : i \in 1..10 }
IsDigitChar(c) == c \in DigitChars
DigitValueOf == [c \in DigitChars |-> IndexIn(Digits, c) - 1]
DigitValue(c) == DigitValueOf[c]

\* ord(c), as a table over the alphabet
OrdOf ==
    [c \in Alphabet |->
        IF c \in { LowerLetters[i] : i \in 1..26 } THEN 96 + IndexIn(LowerLetters, c)
        ELSE IF c \in { UpperLetters[i] : i \in 1..26 } THEN 64 + IndexIn(UpperLetters, c)
        ELSE IF c \in DigitChars THEN 47 + IndexIn(Digits, c)
        ELSE IF c = "." THEN 46
        ELSE IF c = "/" THEN 47
        ELSE 95]
Ord(c) == OrdOf[c]

\* str.lower(), one character, as a table over the alphabet
LowerOf ==
    [c \in Alphabet |->
        IF c \in { UpperLetters[i] : i \in 1..26 }
        THEN LowerLetters[IndexIn(UpperLetters, c)] ELSE c]
LowerChar(c) == LowerOf[c]

\* str.lower()
lower(s) == [i \in 1..Len(s) |-> LowerChar(s[i])]

\* str.isdigit(): non-empty and every character a digit
isdigit(s) == Len(s) > 0 /\ \A i \in 1..Len(s) : IsDigitChar(s[i])

\* int(s) of a digit run
RECURSIVE int(_)
int(s) ==
    IF s = <<>> THEN 0
    ELSE 10 * int(SubSeq(s, 1, Len(s) - 1)) + DigitValue(s[Len(s)])

\* str.endswith(suffix)
endswith(s, suffix) ==
    /\ Len(s) >= Len(suffix)
    /\ SubSeq(s, Len(s) - Len(suffix) + 1, Len(s)) = suffix

(***************************************************************************)
(* natural_sort_key                                                        *)
(***************************************************************************)
\* length of the longest prefix of s without a digit / of digits only
RECURSIVE NonDigitRun(_)
NonDigitRun(s) ==
    IF s = <<>> \/ IsDigitChar(Head(s)) THEN 0 ELSE 1 + NonDigitRun(Tail(s))

RECURSIVE DigitRun(_)
DigitRun(s) ==
    IF s = <<>> \/ ~IsDigitChar(Head(s)) THEN 0 ELSE 1 + DigitRun(Tail(s))

\* re.split(r'(\d+)', s): text, digit run, text, ..., text; the first and the
\* last piece may be empty
RECURSIVE re_split(_)
re_split(s) ==
    LET n == NonDigitRun(s)
        rest == SubSeq(s, n + 1, Len(s))
        d == DigitRun(rest)
    IN  IF rest = <<>> THEN << SubSeq(s, 1, n) >>
        ELSE << SubSeq(s, 1, n), SubSeq(rest, 1, d) >>
                 \o re_split(SubSeq(rest, d + 1, Len(rest)))

\* a key whose digit runs stay text
MutKeyElemNoInt(c) == [isInt |-> FALSE, n |-> 0, s |-> lower(c)]

\* one element of the key: int(c) if c.isdigit() else c.lower()
KeyElem(c) ==
    IF isdigit(c) THEN [isInt |-> TRUE, n |-> int(c), s |-> <<>>]
    ELSE [isInt |-> FALSE, n |-> 0, s |-> lower(c)]

natural_sort_key(s) ==
    LET parts == re_split(s) IN [i \in 1..Len(parts) |-> KeyElem(parts[i])]

\* Python's < on two str: by code point, a proper prefix is smaller
RECURSIVE StrLess(_, _)
StrLess(a, b) ==
    IF b = <<>> THEN FALSE
    ELSE IF a = <<>> THEN TRUE
    ELSE IF Head(a) # Head(b) THEN Ord(Head(a)) < Ord(Head(b))
    ELSE StrLess(Tail(a), Tail(b))

\* Python's < on two key elements.  re.split alternates text and digit runs,
\* so the elements at one index of two keys are both str or both int.
ElemLess(x, y) ==
    IF x.isInt /\ y.isInt THEN x.n < y.n ELSE StrLess(x.s, y.s)

\* Python's < on two lists: the first index where they differ decides; when
\* there is none the shorter list is the smaller
RECURSIVE KeyLess(_, _)
KeyLess(k1, k2) ==
    IF k2 = <<>> THEN FALSE
    ELSE IF k1 = <<>> THEN TRUE
    ELSE IF Head(k1) # Head(k2) THEN ElemLess(Head(k1), Head(k2))
    ELSE KeyLess(Tail(k1), Tail(k2))

\* list.sort(key=natural_sort_key): a stable sort; x goes before the first
\* element whose key is greater than its own
RECURSIVE InsertByKey(_, _)
InsertByKey(x, sorted) ==
    IF sorted = <<>> THEN << x >>
    ELSE IF KeyLess(natural_sort_key(x), natural_sort_key(Head(sorted)))
         THEN << x >> \o sorted
         ELSE << Head(sorted) >> \o InsertByKey(x, Tail(sorted))

\* a sort whose result is thrown away
MutSortDiscarded(xs) == xs

RECURSIVE sort(_)
sort(xs) ==
    IF xs = <<>> THEN <<>>
    ELSE InsertByKey(xs[Len(xs)], sort(SubSeq(xs, 1, Len(xs) - 1)))

(***************************************************************************)
(* Paths and the filesystem.                                               *)
(***************************************************************************)
\* the components of a path string, "." and empty components dropped: the
\* directory or file below the working directory the string names
RECURSIVE Components(_, _)
Components(p, name) ==
    LET done == IF name = <<>> \/ name = << "." >> THEN <<>> ELSE << name >>
    IN  IF p = <<>> THEN done
        ELSE IF Head(p) = "/" THEN done \o Components(Tail(p), <<>>)
        ELSE Components(Tail(p), Append(name, Head(p)))

Resolve(p) == Components(p, <<>>)

\* os.path.join(a, b) for a non-empty a without a trailing separator
join(a, b) == a \o << "/" >> \o b

Parent(c) == SubSeq(c, 1, Len(c) - 1)
Basename(c) == c[Len(c)]

\* all orders of a finite set
Perms(S) ==
    { f \in [1..Cardinality(S) -> S] :
        \A i, j \in 1..Cardinality(S) : i # j => f[i] # f[j] }

Range(f) == { f[i] : i \in DOMAIN f }

(***************************************************************************)
(* The names of the bounded universe.                                      *)
(***************************************************************************)
Dot == << "." >>
InDir == << "i","n" >>
OutputDir == << "o","u","t","p","u","t" >>
Nope == << "n","o","p","e" >>
D2 == << "d","2" >>
D10 == << "d","1","0" >>
UpperD2 == << "D","2" >>
A1pdf == << "a","1",".","p","d","f" >>
A2pdf == << "a","2",".","p","d","f" >>
A10pdf == << "a","1","0",".","p","d","f" >>
UpperA1PDF == << "A","1",".","P","D","F" >>
A01pdf == << "a","0","1",".","p","d","f" >>
A3pdfNoDot == << "a","3","p","d","f" >>
\* 'combined_pdf.pdf', line 75
CombinedName == << "c","o","m","b","i","n","e","d","_","p","d","f",".","p","d","f" >>
\* '.pdf', line 58
PdfSuffix == << ".","p","d","f" >>

\* the bounds of the universe
MaxFiles == 3
MaxCorrupt == 1
MaxRuns == 2

\* the directory trees below the working directory (which always holds in/)
DirTrees ==
    { { <<>>, << InDir >>, << InDir, D2 >>, << InDir, D10 >> },
      { <<>>, << InDir >>, << InDir, D2 >>, << InDir, UpperD2 >> } }

\* where an input file may lie
Placements ==
    { << InDir, n >> : n \in { A1pdf, A2pdf, A10pdf, UpperA1PDF, A01pdf, A3pdfNoDot } }
    \cup { << InDir, D2, A1pdf >>, << InDir, D10, A2pdf >>, << InDir, UpperD2, A1pdf >> }

BoundedSubsets(S, n) == { T \in SUBSET S : Cardinality(T) <= n }

\* the output file of a run with output_folder out
OutFile(out) == << out, CombinedName >>

(***************************************************************************)
(* State.                                                                  *)
(***************************************************************************)
VARIABLES
    fsDirs,         \* the directories of the filesystem
    fsFiles,        \* its regular files
    corrupt,        \* the files PdfMerger.append raises on
    outContent,     \* the inputs merged into the last file a run wrote
    source_folder,  \* the arguments of combine_pdfs
    output_folder,
    pc,             \* the position of combine_pdfs
    merger,         \* the PdfMerger: its inputs, and whether close() was called
    walk_stack,     \* the directories os.walk has still to visit
    all_folders,
    folder_idx,     \* all_folders[folder_idx] is the folder of the loop of line 56
    pdf_files,
    file_idx,       \* the number of entries of pdf_files the loop of line 64 has taken
    pdf_count,
    attempted,      \* history: the paths merger.append was called with, in order
    errors,         \* history: the paths reported by "Error adding"
    events,         \* history: the steps of this run, in order
    written,        \* history: the files this run has written
    notice,         \* the closing message of the run
    run,            \* the number of the run
    prev_appended   \* the inputs the run before this one merged

vars == << fsDirs, fsFiles, corrupt, outContent, source_folder, output_folder,
           pc, merger, walk_stack, all_folders, folder_idx, pdf_files,
           file_idx, pdf_count, attempted, errors, events, written, notice,
           run, prev_appended >>

fsVars == << fsDirs, fsFiles, corrupt, outContent >>
argVars == << source_folder, output_folder >>

\* os.path.exists
exists(p) == Resolve(p) \in fsDirs \cup fsFiles
\* os.path.isdir
isdir(p) == Resolve(p) \in fsDirs

\* the names os.listdir(folder) returns, in no order
listdir(folder) ==
    { Basename(c) : c \in { e \in fsDirs \cup fsFiles :
                              e # <<>> /\ Parent(e) = Resolve(folder) } }

\* the sub-directories os.walk finds in a directory
subdirs(folder) ==
    { Basename(c) : c \in { e \in fsDirs :
                              e # <<>> /\ Parent(e) = Resolve(folder) } }

\* the suffix test without lower()
MutIsPdfCaseSensitive(f) == endswith(f, PdfSuffix)

\* f.lower().endswith('.pdf'), line 58
is_pdf(f) == endswith(lower(f), PdfSuffix)

\* the state of the program before line 36
Fresh ==
    /\ pc = "start"
    /\ merger = [made |-> FALSE, inputs |-> <<>>, closed |-> FALSE]
    /\ walk_stack = <<>>
    /\ all_folders = <<>>
    /\ folder_idx = 0
    /\ pdf_files = <<>>
    /\ file_idx = 0
    /\ pdf_count = 0
    /\ attempted = <<>>
    /\ errors = <<>>
    /\ events = <<>>
    /\ written = {}
    /\ notice = "none"

\* The source folder and the output folder a run starts from: a source that
\* is the working directory or in/, with an output folder that is missing,
\* holds a combined_pdf.pdf already, or is a regular file; or a source that is
\* missing or a regular file, with an output folder that is missing or there.
Scenarios ==
    ({ "cwd", "in" } \X { "absent", "old", "file" })
    \cup ({ "missing", "file" } \X { "absent", "dir" })

\* output_folder is the default 'output'
Init ==
    /\ Fresh
    /\ run = 1
    /\ prev_appended = <<>>
    /\ output_folder = OutputDir
    /\ \E dirs \in DirTrees :
       \E files \in BoundedSubsets({ f \in Placements : Parent(f) \in dirs }, MaxFiles) :
       \E bad \in BoundedSubsets({ f \in files : is_pdf(Basename(f)) }, MaxCorrupt) :
       \E sc \in Scenarios :
       LET src == sc[1]
           out == sc[2]
       IN /\ source_folder = CASE src = "cwd" -> Dot
                               [] src = "in" -> InDir
                               [] OTHER -> Nope
          /\ fsDirs = dirs \cup (IF out \in { "dir", "old" } THEN { << OutputDir >> } ELSE {})
          /\ fsFiles = files
                \cup (IF src = "file" THEN { << Nope >> } ELSE {})
                \cup (IF out = "file" THEN { << OutputDir >> } ELSE {})
                \cup (IF out = "old" THEN { OutFile(OutputDir) } ELSE {})
          /\ corrupt = bad
          /\ outContent = <<>>

(***************************************************************************)
(* combine_pdfs, step by step.                                             *)
(***************************************************************************)
\* lines 36-39: if not os.path.exists(output_folder): os.makedirs(output_folder)
EnsureOutputFolder ==
    /\ pc = "start"
    /\ IF ~exists(output_folder)
       THEN /\ fsDirs' = fsDirs \cup { Resolve(output_folder) }
            /\ events' = Append(events, "makedirs")
       ELSE UNCHANGED << fsDirs, events >>
    /\ pc' = "merger"
    /\ UNCHANGED << fsFiles, corrupt, outContent, argVars, merger, walk_stack,
                    all_folders, folder_idx, pdf_files, file_idx, pdf_count,
                    attempted, errors, written, notice, run, prev_appended >>

\* lines 41-45: merger = PdfMerger(); all_folders = []; os.walk starts at the
\* source folder
CreateMerger ==
    /\ pc = "merger"
    /\ merger' = [made |-> TRUE, inputs |-> <<>>, closed |-> FALSE]
    /\ all_folders' = <<>>
    /\ walk_stack' = << source_folder >>
    /\ pc' = "walk"
    /\ UNCHANGED << fsVars, argVars, folder_idx, pdf_files, file_idx, pdf_count,
                    attempted, errors, events, written, notice, run, prev_appended >>

\* lines 46-47: one iteration of os.walk.  A top that cannot be scanned (it is
\* missing, or no directory) is skipped silently: os.walk is called without
\* onerror.  Otherwise the directory is yielded and its sub-directories are
\* visited next, in the order the scan returned them.
WalkStep ==
    /\ pc = "walk"
    /\ walk_stack # <<>>
    /\ LET top == Head(walk_stack) IN
       IF ~isdir(top)
       THEN /\ walk_stack' = Tail(walk_stack)
            /\ UNCHANGED << all_folders, events >>
       ELSE \E order \in Perms(subdirs(top)) :
            /\ walk_stack' = [i \in 1..Len(order) |-> join(top, order[i])]
                                \o Tail(walk_stack)
            /\ all_folders' = Append(all_folders, top)
            /\ events' = Append(events, "walk")
    /\ UNCHANGED << fsVars, argVars, pc, merger, folder_idx, pdf_files, file_idx,
                    pdf_count, attempted, errors, written, notice, run,
                    prev_appended >>

\* lines 49-53: all_folders.sort(key=natural_sort_key); pdf_count = 0
SortFolders ==
    /\ pc = "walk"
    /\ walk_stack = <<>>
    /\ all_folders' = sort(all_folders)
    /\ pdf_count' = 0
    /\ folder_idx' = 0
    /\ events' = Append(events, "sort_folders")
    /\ pc' = "loop"
    /\ UNCHANGED << fsVars, argVars, merger, walk_stack, pdf_files, file_idx,
                    attempted, errors, written, notice, run, prev_appended >>

\* lines 56-58: the next folder; pdf_files is the listing of the folder, in the
\* order os.listdir returned it, filtered by the suffix
ListFolder ==
    /\ pc = "loop"
    /\ folder_idx < Len(all_folders)
    /\ folder_idx' = folder_idx + 1
    /\ \E order \in Perms({ f \in listdir(all_folders[folder_idx + 1]) : is_pdf(f) }) :
          pdf_files' = order
    /\ file_idx' = 0
    /\ events' = Append(events, "listdir")
    /\ pc' = "sort_files"
    /\ UNCHANGED << fsVars, argVars, merger, walk_stack, all_folders, pdf_count,
                    attempted, errors, written, notice, run, prev_appended >>

\* line 61: pdf_files.sort(key=natural_sort_key)
SortFiles ==
    /\ pc = "sort_files"
    /\ pdf_files' = sort(pdf_files)
    /\ events' = Append(events, "sort_files")
    /\ pc' = IF pdf_files = <<>> THEN "loop" ELSE "append"
    /\ UNCHANGED << fsVars, argVars, merger, walk_stack, all_folders, folder_idx,
                    file_idx, pdf_count, attempted, errors, written, notice, run,
                    prev_appended >>

\* lines 67-69: merger.append(pdf_path) returned; pdf_count += 1; "Added: ..."
AppendSucceeds(pdf_path) ==
    /\ merger' = [merger EXCEPT !.inputs = Append(@, pdf_path)]
    /\ pdf_count' = pdf_count + 1
    /\ events' = Append(events, "append")
    /\ pc' = IF file_idx + 1 = Len(pdf_files) THEN "loop" ELSE "append"
    /\ UNCHANGED << errors, notice >>

\* an append whose exception is not caught
MutAppendRaisesUncaught(pdf_path) ==
    /\ errors' = Append(errors, pdf_path)
    /\ events' = Append(events, "append_error")
    /\ pc' = "raised"
    /\ notice' = "exception"
    /\ UNCHANGED << merger, pdf_count >>

\* lines 70-71: merger.append(pdf_path) raised; the exception is caught and
\* reported, and the loop goes on with the next file
AppendRaises(pdf_path) ==
    /\ errors' = Append(errors, pdf_path)
    /\ events' = Append(events, "append_error")
    /\ pc' = IF file_idx + 1 = Len(pdf_files) THEN "loop" ELSE "append"
    /\ UNCHANGED << merger, pdf_count, notice >>

\* lines 64-71: one iteration of the loop over pdf_files.  merger.append raises
\* on a file it cannot read.
AppendFile ==
    /\ pc = "append"
    /\ LET pdf_path == join(all_folders[folder_idx], pdf_files[file_idx + 1]) IN
       /\ attempted' = Append(attempted, pdf_path)
       /\ IF Resolve(pdf_path) \in fsFiles \ corrupt
          THEN AppendSucceeds(pdf_path)
          ELSE AppendRaises(pdf_path)
    /\ file_idx' = file_idx + 1
    /\ UNCHANGED << fsVars, argVars, walk_stack, all_folders, folder_idx,
                    pdf_files, written, run, prev_appended >>

\* the write indented into the loop over the folders
MutLoopFinishedInLoop == folder_idx > 0

\* a test that also passes for no PDF
MutShouldWriteAlways == pdf_count >= 0

\* the output path without the output folder
MutOutputPathNoFolder(out) == CombinedName

\* the loop of line 56 has taken every folder
LoopFinished == folder_idx = Len(all_folders)

\* line 74: if pdf_count > 0
ShouldWrite == pdf_count > 0

\* line 75: os.path.join(output_folder, 'combined_pdf.pdf')
output_path(out) == join(out, CombinedName)

\* lines 74-76: merger.write(output_path).  The write raises when
\* output_folder is no directory (os.path.exists was true of a regular file
\* at line 37); the exception leaves combine_pdfs.
WriteOutput ==
    /\ pc = "loop"
    /\ LoopFinished
    /\ ShouldWrite
    /\ IF isdir(output_folder)
       THEN /\ fsFiles' = fsFiles \cup { Resolve(output_path(output_folder)) }
            /\ corrupt' = corrupt \ { Resolve(output_path(output_folder)) }
            /\ outContent' = merger.inputs
            /\ written' = written \cup { output_path(output_folder) }
            /\ events' = Append(events, "write")
            /\ pc' = "close"
            /\ UNCHANGED notice
       ELSE /\ events' = Append(events, "write_error")
            /\ pc' = "raised"
            /\ notice' = "exception"
            /\ UNCHANGED << fsFiles, corrupt, outContent, written >>
    /\ UNCHANGED << fsDirs, argVars, merger, walk_stack, all_folders, folder_idx,
                    pdf_files, file_idx, pdf_count, attempted, errors, run,
                    prev_appended >>

\* lines 77-78: merger.close(); "Successfully combined ..."
CloseMerger ==
    /\ pc = "close"
    /\ merger' = [merger EXCEPT !.closed = TRUE]
    /\ events' = Append(events, "close")
    /\ notice' = "combined"
    /\ pc' = "done"
    /\ UNCHANGED << fsVars, argVars, walk_stack, all_folders, folder_idx,
                    pdf_files, file_idx, pdf_count, attempted, errors, written,
                    run, prev_appended >>

\* lines 79-80: pdf_count = 0; "No PDF files found in the specified folders."
NoPdfs ==
    /\ pc = "loop"
    /\ LoopFinished
    /\ ~ShouldWrite
    /\ notice' = "no_pdfs"
    /\ pc' = "done"
    /\ UNCHANGED << fsVars, argVars, merger, walk_stack, all_folders, folder_idx,
                    pdf_files, file_idx, pdf_count, attempted, errors, events,
                    written, run, prev_appended >>

\* combine_pdfs is called again with the same arguments, on the filesystem
\* the run before left
RunAgain ==
    /\ pc = "done"
    /\ run < MaxRuns
    /\ run' = run + 1
    /\ prev_appended' = merger.inputs
    /\ pc' = "start"
    /\ merger' = [made |-> FALSE, inputs |-> <<>>, closed |-> FALSE]
    /\ walk_stack' = <<>>
    /\ all_folders' = <<>>
    /\ folder_idx' = 0
    /\ pdf_files' = <<>>
    /\ file_idx' = 0
    /\ pdf_count' = 0
    /\ attempted' = <<>>
    /\ errors' = <<>>
    /\ events' = <<>>
    /\ written' = {}
    /\ notice' = "none"
    /\ UNCHANGED << fsVars, argVars >>

Step ==
    \/ EnsureOutputFolder
    \/ CreateMerger
    \/ WalkStep
    \/ SortFolders
    \/ ListFolder
    \/ SortFiles
    \/ AppendFile
    \/ WriteOutput
    \/ CloseMerger
    \/ NoPdfs

\* one call of combine_pdfs
Next == Step

Spec == Init /\ [][Next]_vars

\* two calls in a row
NextAgain == Step \/ RunAgain

SpecAgain == Init /\ [][NextAgain]_vars

(***************************************************************************)
(* Vocabulary of the properties.                                           *)
(***************************************************************************)
\* combine_pdfs has returned or raised
RunEnded == pc \in { "done", "raised" }

\* the loop of lines 56-71 has just ended: nothing is written yet
MergeFinished == pc = "loop" /\ folder_idx = Len(all_folders)

\* the folder and the file name of a path os.path.join built
\* (a path without a separator is a name in no folder)
LastSlash(p) ==
    IF \A i \in 1..Len(p) : p[i] # "/" THEN 0
    ELSE CHOOSE k \in 1..Len(p) : p[k] = "/" /\ \A i \in (k + 1)..Len(p) : p[i] # "/"
DirOf(p) == SubSeq(p, 1, LastSlash(p) - 1)
NameOf(p) == SubSeq(p, LastSlash(p) + 1, Len(p))

Pos(seq, x) == CHOOSE i \in 1..Len(seq) : seq[i] = x
Before(seq, x, y) == (x \in Range(seq) /\ y \in Range(seq)) => Pos(seq, x) < Pos(seq, y)
NoDuplicates(seq) == \A i, j \in 1..Len(seq) : i # j => seq[i] # seq[j]

\* a name ending in .pdf, in any letter case
HasPdfSuffix(n) ==
    /\ Len(n) >= 4
    /\ n[Len(n) - 3] = "."
    /\ n[Len(n) - 2] \in { "p", "P" }
    /\ n[Len(n) - 1] \in { "d", "D" }
    /\ n[Len(n)] \in { "f", "F" }

\* the regular files below the source folder, at any depth
UnderSource(f) ==
    LET root == Resolve(source_folder) IN
    /\ root \in fsDirs
    /\ Len(f) > Len(root)
    /\ SubSeq(f, 1, Len(root)) = root

SourceFiles == { f \in fsFiles : UnderSource(f) }
Candidates == { f \in SourceFiles : HasPdfSuffix(Basename(f)) }

\* the path string os.walk and os.path.join give a directory or a file below
\* the source folder
RECURSIVE JoinAll(_, _)
JoinAll(base, comps) ==
    IF comps = <<>> THEN base ELSE JoinAll(join(base, Head(comps)), Tail(comps))

PathString(c) ==
    JoinAll(source_folder, SubSeq(c, Len(Resolve(source_folder)) + 1, Len(c)))

\* the folders of the source tree, as path strings
SourceFolders ==
    LET root == Resolve(source_folder) IN
    { PathString(d) : d \in { e \in fsDirs : root \in fsDirs /\ Len(e) >= Len(root)
                                              /\ SubSeq(e, 1, Len(root)) = root } }

\* the PDF names directly in a folder
PdfNamesIn(folder) ==
    { Basename(f) : f \in { g \in fsFiles : Parent(g) = Resolve(folder)
                                           /\ HasPdfSuffix(Basename(g)) } }

\* two names the natural key does not tell apart
Tied(x, y) == x # y /\ natural_sort_key(x) = natural_sort_key(y)

NoTies ==
    /\ \A f, g \in SourceFolders : ~Tied(f, g)
    /\ \A d \in SourceFolders : \A n, m \in PdfNamesIn(d) : ~Tied(n, m)

\* the order of a set of names that depends on the set alone: by natural
\* key, names of equal key by code point
CanonicalOrder(S) ==
    CHOOSE s \in Perms(S) :
        \A i \in 1..(Len(s) - 1) :
            \/ KeyLess(natural_sort_key(s[i]), natural_sort_key(s[i + 1]))
            \/ /\ natural_sort_key(s[i]) = natural_sort_key(s[i + 1])
               /\ StrLess(s[i], s[i + 1])

RECURSIVE CanonicalFrom(_)
CanonicalFrom(folders) ==
    IF folders = <<>> THEN <<>>
    ELSE LET names == CanonicalOrder(PdfNamesIn(Head(folders)))
         IN  [i \in 1..Len(names) |-> join(Head(folders), names[i])]
                \o CanonicalFrom(Tail(folders))

\* the merge order the source tree determines
CanonicalMergeOrder == CanonicalFrom(CanonicalOrder(SourceFolders))

Listings == { "walk", "listdir" }
Sorts == { "sort_folders", "sort_files" }
Appends == { "append", "append_error" }
Writes == { "write", "write_error" }
Count(seq, S) == Cardinality({ i \in 1..Len(seq) : seq[i] \in S })

(***************************************************************************)
(* Properties.                                                             *)
(***************************************************************************)

\* C1: the files appended to the merger are ordered by the natural key of
\* the folder path and, within one folder, by the natural key of the file
\* name; a1.pdf, a2.pdf, a10.pdf of one folder are appended in that order, and
\* the files of folder d2 before those of its sibling d10.
C1_NaturalOrder ==
    LET app == merger.inputs IN
    /\ \A i, j \in 1..Len(app) :
         i < j =>
           /\ ~KeyLess(natural_sort_key(DirOf(app[j])), natural_sort_key(DirOf(app[i])))
           /\ DirOf(app[i]) = DirOf(app[j]) =>
                ~KeyLess(natural_sort_key(NameOf(app[j])), natural_sort_key(NameOf(app[i])))
    /\ \A d \in { DirOf(app[i]) : i \in 1..Len(app) } :
         /\ Before(app, join(d, A1pdf), join(d, A2pdf))
         /\ Before(app, join(d, A2pdf), join(d, A10pdf))
         /\ Before(app, join(d, A1pdf), join(d, A10pdf))
    /\ \A i, j \in 1..Len(app) :
         /\ NameOf(DirOf(app[i])) = D2 /\ NameOf(DirOf(app[j])) = D10
         /\ DirOf(DirOf(app[i])) = DirOf(DirOf(app[j]))
         => i < j

\* a finished run that merged a1.pdf, a2.pdf, a10.pdf of in/
C1_Witness ==
    /\ pc = "done"
    /\ merger.inputs = << join(InDir, A1pdf), join(InDir, A2pdf), join(InDir, A10pdf) >>

\* C2: when the merge loop has ended, the files appended are exactly the files
\* below the source folder, at any depth, whose name ends in .pdf in any letter
\* case and whose append did not fail, each once; and no file without that
\* suffix is ever appended.
C2_ExactlyThePdfs ==
    /\ \A i \in 1..Len(merger.inputs) : HasPdfSuffix(NameOf(merger.inputs[i]))
    /\ NoDuplicates(merger.inputs)
    /\ MergeFinished =>
         { Resolve(merger.inputs[i]) : i \in 1..Len(merger.inputs) } = Candidates \ corrupt

\* the loop ended on a tree with a file that is no PDF, a PDF whose append
\* failed, and an appended PDF in upper case or below the root folder
C2_Witness ==
    /\ MergeFinished
    /\ SourceFiles \ Candidates # {}
    /\ Candidates \cap corrupt # {}
    /\ \E i \in 1..Len(merger.inputs) :
          \/ NameOf(merger.inputs[i]) = UpperA1PDF
          \/ Len(Resolve(merger.inputs[i])) > Len(Resolve(source_folder)) + 1

\* C3: if the source folder is missing or no directory, the run ends with a
\* fatal error and not with the "no PDFs found" notice, and it has created
\* neither the output folder nor the output file.
C3_InvalidSourceIsFatal ==
    (RunEnded /\ ~isdir(source_folder)) =>
        /\ pc = "raised"
        /\ notice # "no_pdfs"
        /\ Count(events, { "makedirs" }) = 0
        /\ written = {}

\* C4: a failed append does not stop the run: the appended files are always
\* the attempted ones that did not fail, in the same order, and pdf_count
\* counts them; no file is attempted twice; when the loop has ended every
\* candidate was attempted, in sort order; and a run with a failed and a
\* successful append reaches the write step.
C4_FailureIsSkipped ==
    LET Ok(p) == Resolve(p) \notin corrupt
        Failed(p) == Resolve(p) \in corrupt
    IN
    /\ merger.inputs = SelectSeq(attempted, Ok)
    /\ errors = SelectSeq(attempted, Failed)
    /\ pdf_count = Len(merger.inputs)
    /\ NoDuplicates(attempted)
    /\ MergeFinished =>
         /\ { Resolve(attempted[i]) : i \in 1..Len(attempted) } = Candidates
         /\ \A i, j \in 1..Len(attempted) :
              i < j =>
                /\ ~KeyLess(natural_sort_key(DirOf(attempted[j])),
                            natural_sort_key(DirOf(attempted[i])))
                /\ DirOf(attempted[i]) = DirOf(attempted[j]) =>
                     ~KeyLess(natural_sort_key(NameOf(attempted[j])),
                              natural_sort_key(NameOf(attempted[i])))
    /\ (RunEnded /\ errors # <<>>) =>
         /\ Count(events, Writes) = (IF pdf_count > 0 THEN 1 ELSE 0)
         /\ pc = "raised" => Count(events, { "write_error" }) = 1

\* a finished run whose failed append lies between two successful ones
C4_Witness ==
    /\ pc = "done"
    /\ Len(attempted) = 3
    /\ Resolve(attempted[1]) \notin corrupt
    /\ Resolve(attempted[2]) \in corrupt
    /\ Resolve(attempted[3]) \notin corrupt
    /\ pdf_count = 2
    /\ written # {}

C6_WrittenIffAppended ==
    RunEnded =>
        /\ (written = { output_path(output_folder) }) <=> (Len(merger.inputs) > 0)
        /\ written \subseteq { join(output_folder, CombinedName) }

\* C6 as amended: at the end of a run the write of <output_folder>/combined_pdf.pdf
\* was attempted if and only if an append succeeded, and the file is written
\* (with the inputs of this run, replacing what was there) if and only if an
\* append succeeded and the write did not raise, which it does when
\* output_folder is no directory; no other file is written.
C6_WrittenIffAppendedAndWritable ==
    /\ written \subseteq { join(output_folder, CombinedName) }
    /\ written # {} =>
         /\ << output_folder, CombinedName >> \in fsFiles
         /\ outContent = merger.inputs
         /\ Len(merger.inputs) > 0
    /\ RunEnded =>
         /\ (Count(events, Writes) = 1) <=> (Len(merger.inputs) > 0)
         /\ Count(events, Writes) <= 1
         /\ (written # {}) <=> (Len(merger.inputs) > 0 /\ isdir(output_folder))
         /\ pc = "raised" <=> (Len(merger.inputs) > 0 /\ ~isdir(output_folder))

\* a finished run that wrote the output file after one append failed and one
\* succeeded
C6_Witness ==
    /\ pc = "done"
    /\ written = { join(output_folder, CombinedName) }
    /\ errors # <<>>
    /\ outContent = merger.inputs

C8_OrderOfTheSet ==
    MergeFinished => attempted = CanonicalMergeOrder

\* C8 as amended: the same, for a tree in which no two folder paths and no two
\* PDF names of one folder have equal natural keys.
C8_OrderOfTheSetNoTies ==
    (MergeFinished /\ NoTies) => attempted = CanonicalMergeOrder

\* the loop ended on a tree without ties, with three files in two folders
C8_Witness ==
    /\ MergeFinished
    /\ NoTies
    /\ Len(attempted) = 3
    /\ DirOf(attempted[1]) # DirOf(attempted[3])

\* C9: when the run has ended, the merger is closed.
C9_MergerClosed ==
    RunEnded => merger.closed

\* C10: a second run with the same arguments, after a first run that wrote
\* combined_pdf.pdf and had no such file among its inputs, appends the same
\* files as the first, and not the combined_pdf.pdf the first run wrote.
C10_SecondRunSameInputs ==
    (/\ run = 2 /\ MergeFinished /\ NoTies /\ prev_appended # <<>>
     /\ \A i \in 1..Len(prev_appended) :
          Resolve(prev_appended[i]) # << output_folder, CombinedName >>) =>
        /\ merger.inputs = prev_appended
        /\ \A i \in 1..Len(merger.inputs) :
             Resolve(merger.inputs[i]) # << output_folder, CombinedName >>

====
